---- MODULE Spec2Model ----
(***************************************************************************)
(* Struct layout arithmetic of the notes in GolangBasics/main.go, section  *)
(* "5. Structs & Memory Alignment": the alignment rule, the layout table   *)
(* of GoodStruct and the BadStruct / GoodStruct / Config examples.         *)
(*                                                                         *)
(* A field descriptor is a record [size, alignment].  The layout of an     *)
(* ordered field sequence is computed field by field with a running        *)
(* cursor, as the layout table of the notes does.                          *)
(*                                                                         *)
(* Second part: pointer() of the pointer example and section "6. Pointers  *)
(* & Reference Semantics": a caller's variable count, passed by value to   *)
(* increment and by address to incrementAddr.                              *)
(***************************************************************************)
EXTENDS Integers, Sequences, FiniteSets, TLC

VARIABLES fields, layout, pc

\* Memory of pointer(): the cells of count and of the callee's parameter num,
\* the position in pointer(), the value count was declared with and the
\* calls made so far.
VARIABLES mem, ppc, declared, calls

vars == <<fields, layout, pc, mem, ppc, declared, calls>>

\* Longest field sequence explored (Config has four fields).
MaxFields == 4

F(s, a) == [size |-> s, alignment |-> a]

\* The natural alignments the notes list: int8 1, int16 2, int32 4, int64 8.
PrimitiveFields == {F(1, 1), F(2, 2), F(4, 4), F(8, 8)}

\* string as the notes size it (24 bytes, 8-byte aligned), and composite or
\* over-aligned fields whose size is not their alignment.
CompositeFields == {F(24, 8), F(3, 1), F(2, 1), F(12, 4), F(1, 4)}

FieldDescriptors == PrimitiveFields \cup CompositeFields

IsPowerOfTwo(n) == n \in {1, 2, 4, 8, 16, 32, 64}

\* Field sequences of length 1..MaxFields.
Inputs == UNION {[1..n -> FieldDescriptors] : n \in 1..MaxFields}

NoLayout == [offsets |-> <<>>, totalSize |-> -1]

----------------------------------------------------------------------------
\* The alignment rule and the cursor walk of the layout table.

\* Off-by-one ceiling: pads to the next boundary even when already aligned.
AlignUpAlwaysPads(cursor, alignment) == ((cursor \div alignment) + 1) * alignment

\* Rounds the cursor down instead of up.
AlignUpRoundsDown(cursor, alignment) == (cursor \div alignment) * alignment

\* No padding at all: packed layout.
AlignUpPacked(cursor, alignment) == cursor

\* Field offset = ceil(field_offset / field_alignment) * field_alignment
AlignUp(cursor, alignment) == ((cursor + alignment - 1) \div alignment) * alignment

\* No trailing padding.
StructSizeUnpadded(cursor, maxAlignment) == cursor

\* Struct size = ceil(end of last field / max_field_alignment) * max_field_alignment
StructSize(cursor, maxAlignment) == ((cursor + maxAlignment - 1) \div maxAlignment) * maxAlignment

Max(a, b) == IF a >= b THEN a ELSE b

\* Keeps the alignment of the last field instead of the largest one.
MaxAlignmentOfLast(fs) == IF fs = <<>> THEN 1 ELSE fs[Len(fs)].alignment

\* Largest alignment among the fields, starting from 1.
RECURSIVE MaxAlignment(_)
MaxAlignment(fs) ==
    IF fs = <<>> THEN 1
    ELSE Max(MaxAlignment(SubSeq(fs, 1, Len(fs) - 1)), fs[Len(fs)].alignment)

\* Walk of the layout table: the offsets recorded so far and the cursor
\* (end of the last field placed) after the first n fields.
RECURSIVE Walk(_, _)
Walk(fs, n) ==
    IF n = 0 THEN [offsets |-> <<>>, cursor |-> 0]
    ELSE LET prev   == Walk(fs, n - 1)
             offset == AlignUp(prev.cursor, fs[n].alignment)
         IN  [offsets |-> Append(prev.offsets, offset),
              cursor  |-> offset + fs[n].size]

\* Takes the offsets and drops the last field's size from the cursor.
computeLayoutFromLastOffset(fs) ==
    LET w == Walk(fs, Len(fs))
    IN  [offsets   |-> w.offsets,
         totalSize |-> StructSize(w.offsets[Len(fs)], MaxAlignment(fs))]

computeLayout(fs) ==
    LET w == Walk(fs, Len(fs))
    IN  [offsets   |-> w.offsets,
         totalSize |-> StructSize(w.cursor, MaxAlignment(fs))]

----------------------------------------------------------------------------
\* Memory cells of pointer(): count in the frame of pointer(), num in the
\* frame of the function being called.

\* Calls pointer() may make before it returns (the example makes two).
MaxCalls == 4

\* count := 42 in pointer(); num := 5 in the notes.
InitialCounts == {5, 42}

Addresses == {"count", "num"}

IntCell(n) == [kind |-> "int", int |-> n, ptr |-> "nil"]

\* A cell holding an address: the value of a *int variable.
PtrCell(a) == [kind |-> "ptr", int |-> 0, ptr |-> a]

\* A cell of a frame that does not exist.
Unallocated == [kind |-> "none", int |-> 0, ptr |-> "nil"]

\* increment(count): the parameter num is a copy of the argument's value.
PassByValue(m, a) == [m EXCEPT !["num"] = IntCell(m[a].int)]

\* incrementAddr(&count): the parameter num holds the argument's address.
PassByAddress(m, a) == [m EXCEPT !["num"] = PtrCell(a)]

\* The increment reaches the caller's variable instead of the copy.
incrementWritesCaller(m) == [m EXCEPT !["count"] = IntCell(@.int + 1)]

\* num++ on the int parameter.
increment(m) == [m EXCEPT !["num"] = IntCell(@.int + 1)]

\* *num++ : increments the cell num points to.
incrementAddr(m) == [m EXCEPT ![m["num"].ptr] = IntCell(@.int + 1)]

\* The callee's frame is gone after the return.
PopFrame(m) == [m EXCEPT !["num"] = Unallocated]

----------------------------------------------------------------------------
\* State machine: a caller holds a field sequence and computes its layout.

Init ==
    /\ fields \in Inputs
    /\ layout = NoLayout
    /\ pc = "input"
    /\ mem = [a \in Addresses |-> Unallocated]
    /\ ppc = "idle"
    /\ declared = 0
    /\ calls = <<>>

Compute ==
    /\ pc = "input"
    /\ layout' = computeLayout(fields)
    /\ pc' = "done"
    /\ UNCHANGED <<fields, mem, ppc, declared, calls>>

Next == Compute

Spec == Init /\ [][Next]_vars

----------------------------------------------------------------------------
\* State machine of pointer(): declare count, then call increment and
\* incrementAddr, one statement at a time.

PointerInit ==
    /\ fields = <<>>
    /\ layout = NoLayout
    /\ pc = "idle"
    /\ mem = [a \in Addresses |-> Unallocated]
    /\ ppc = "start"
    /\ declared = 0
    /\ calls = <<>>

\* count := 42
DeclareCount ==
    /\ ppc = "start"
    /\ \E v \in InitialCounts :
          /\ mem' = [mem EXCEPT !["count"] = IntCell(v)]
          /\ declared' = v
    /\ ppc' = "main"
    /\ UNCHANGED <<fields, layout, pc, calls>>

\* increment(count)
CallIncrement ==
    /\ ppc = "main"
    /\ Len(calls) < MaxCalls
    /\ mem' = PassByValue(mem, "count")
    /\ calls' = Append(calls, "value")
    /\ ppc' = "increment"
    /\ UNCHANGED <<fields, layout, pc, declared>>

\* num++ inside increment
IncrementBody ==
    /\ ppc = "increment"
    /\ mem' = increment(mem)
    /\ ppc' = "incrementReturn"
    /\ UNCHANGED <<fields, layout, pc, declared, calls>>

ReturnIncrement ==
    /\ ppc = "incrementReturn"
    /\ mem' = PopFrame(mem)
    /\ ppc' = "main"
    /\ UNCHANGED <<fields, layout, pc, declared, calls>>

\* incrementAddr(&count)
CallIncrementAddr ==
    /\ ppc = "main"
    /\ Len(calls) < MaxCalls
    /\ mem' = PassByAddress(mem, "count")
    /\ calls' = Append(calls, "addr")
    /\ ppc' = "incrementAddr"
    /\ UNCHANGED <<fields, layout, pc, declared>>

\* *num++ inside incrementAddr
IncrementAddrBody ==
    /\ ppc = "incrementAddr"
    /\ mem' = incrementAddr(mem)
    /\ ppc' = "incrementAddrReturn"
    /\ UNCHANGED <<fields, layout, pc, declared, calls>>

ReturnIncrementAddr ==
    /\ ppc = "incrementAddrReturn"
    /\ mem' = PopFrame(mem)
    /\ ppc' = "main"
    /\ UNCHANGED <<fields, layout, pc, declared, calls>>

PointerNext ==
    \/ DeclareCount
    \/ CallIncrement
    \/ IncrementBody
    \/ ReturnIncrement
    \/ CallIncrementAddr
    \/ IncrementAddrBody
    \/ ReturnIncrementAddr

PointerSpec == PointerInit /\ [][PointerNext]_vars

----------------------------------------------------------------------------
\* Helpers of the properties.

N == Len(fields)

EndOf(i) == layout.offsets[i] + fields[i].size

\* Every reordering of a field sequence.
Reorderings(fs) ==
    {[i \in 1..Len(fs) |-> fs[p[i]]] : p \in Permutations(1..Len(fs))}

IsDescendingBySize(fs) ==
    \A i \in 1..(Len(fs) - 1) : fs[i].size >= fs[i + 1].size

Done == pc = "done"

\* The largest alignment that occurs among the input fields.
LargestAlignment ==
    CHOOSE a \in {fields[i].alignment : i \in 1..N} :
        \A i \in 1..N : fields[i].alignment <= a

\* Padding inserted immediately before field i.
PaddingBefore(i) == layout.offsets[i] - (IF i = 1 THEN 0 ELSE EndOf(i - 1))

BadStruct  == <<F(1, 1), F(8, 8), F(1, 1)>>
GoodStruct == <<F(8, 8), F(1, 1), F(1, 1)>>
SingleInt32 == <<F(4, 4)>>

\* Config of the notes: Name string (24, 8), Count int8, ID int64, Active bool.
ConfigPoor    == <<F(24, 8), F(1, 1), F(8, 8), F(1, 1)>>
ConfigOptimal == <<F(24, 8), F(8, 8), F(1, 1), F(1, 1)>>

----------------------------------------------------------------------------
\* C1: every offset of a computed layout is a multiple of the alignment of
\* its own field, also for composite fields whose alignment is less than
\* their size.
C1_OffsetsAligned ==
    Done => \A i \in 1..N : layout.offsets[i] % fields[i].alignment = 0

\* A composite field (alignment < size) was placed after padding.
C1_Witness ==
    /\ Done
    /\ \E i \in 2..N : /\ fields[i].alignment < fields[i].size
                       /\ PaddingBefore(i) > 0

\* C2: a computed layout has exactly one offset per input field, in input
\* order, and consecutive fields never overlap: the end of field i is at or
\* before the offset of field i+1, so the offsets are non-decreasing.
C2_NoOverlap ==
    Done => /\ Len(layout.offsets) = N
            /\ \A i \in 1..(N - 1) :
                  /\ EndOf(i) <= layout.offsets[i + 1]
                  /\ layout.offsets[i] <= layout.offsets[i + 1]

\* Three fields laid out, with padding between two of them.
C2_Witness ==
    /\ Done
    /\ N >= 3
    /\ \E i \in 1..(N - 1) : EndOf(i) < layout.offsets[i + 1]

\* C3: totalSize is the smallest multiple of the largest field alignment
\* that is at or past the end of the last field: a multiple of the largest
\* alignment, not less than the end of the last field, and with trailing
\* padding strictly less than the largest alignment.
C3_TotalSizeMinimalMultiple ==
    Done => /\ layout.totalSize % LargestAlignment = 0
            /\ layout.totalSize >= EndOf(N)
            /\ layout.totalSize - EndOf(N) < LargestAlignment

\* A layout that needed trailing padding, its widest field not the last.
C3_Witness ==
    /\ Done
    /\ layout.totalSize > EndOf(N)
    /\ fields[N].alignment < LargestAlignment

\* C4: the worked reference values: BadStruct has offsets 0, 8, 16 and
\* size 24; GoodStruct has offsets 0, 8, 9 and size 16; a single 4-byte
\* field has offset 0 and size 4.
C4_ReferenceValues ==
    Done => /\ fields = BadStruct =>
                  layout = [offsets |-> <<0, 8, 16>>, totalSize |-> 24]
            /\ fields = GoodStruct =>
                  layout = [offsets |-> <<0, 8, 9>>, totalSize |-> 16]
            /\ fields = SingleInt32 =>
                  layout = [offsets |-> <<0>>, totalSize |-> 4]

\* The layout of BadStruct has been computed.
C4_Witness == Done /\ fields = BadStruct

\* The reorderings of the input fields that are in descending size order.
DescendingReorderings ==
    {d \in Reorderings(fields) : IsDescendingBySize(d)}

PrimitiveShaped(fs) ==
    \A i \in 1..Len(fs) : /\ IsPowerOfTwo(fs[i].size)
                          /\ fs[i].alignment <= fs[i].size

C10_MinimalPadding ==
    Done => /\ layout.offsets[1] = 0
            /\ \A i \in 2..N :
                  /\ layout.offsets[i] % fields[i].alignment = 0
                  /\ PaddingBefore(i) >= 0
                  /\ PaddingBefore(i) < fields[i].alignment
                  /\ (EndOf(i - 1) % fields[i].alignment = 0
                        => PaddingBefore(i) = 0)

\* One later field was placed without padding on an aligned cursor and
\* another one needed padding.
C10_Witness ==
    /\ Done
    /\ \E i \in 2..N : /\ fields[i].alignment > 1
                       /\ EndOf(i - 1) % fields[i].alignment = 0
                       /\ PaddingBefore(i) = 0
    /\ \E i \in 2..N : PaddingBefore(i) > 0

----------------------------------------------------------------------------
\* Number of by-address calls whose increment has been executed.
AddrIncrementsDone ==
    Cardinality({i \in 1..Len(calls) : calls[i] = "addr"})
        - (IF ppc = "incrementAddr" THEN 1 ELSE 0)

\* C11: a by-value call never changes the caller's count, only the callee's
\* copy is incremented; a by-address call increments exactly the caller's
\* count, by one, and leaves the pointer it was given as it was.  So count is
\* always its declared value plus the number of by-address increments, and
\* in pointer() count is 42 after increment(count) and 43 after the
\* following incrementAddr(&count).
C11_ValueAndAddressCalls ==
    ppc # "start" =>
        /\ mem["count"] = IntCell(declared + AddrIncrementsDone)
        /\ ppc = "main" => mem["num"] = Unallocated
        /\ ppc = "increment" => mem["num"] = mem["count"]
        /\ ppc = "incrementReturn" => mem["num"] = IntCell(mem["count"].int + 1)
        /\ ppc \in {"incrementAddr", "incrementAddrReturn"} =>
              mem["num"] = PtrCell("count")
        /\ (declared = 42 /\ ppc = "main" /\ calls = <<"value">>) =>
              mem["count"] = IntCell(42)
        /\ (declared = 42 /\ ppc = "main" /\ calls = <<"value", "addr">>) =>
              mem["count"] = IntCell(43)

\* pointer() as written has returned from both calls: count started at 42,
\* was passed by value and then by address, and is now 43.
C11_Witness ==
    /\ ppc = "main"
    /\ declared = 42
    /\ calls = <<"value", "addr">>
    /\ mem["count"] = IntCell(43)

====
